---- MODULE Spec2Model ----
(***************************************************************************)
(* Model of Volume (unpacker/cpp/volume.cc): the worker that executes the  *)
(* ReadMetadata / OpenFile / ReadFile / CloseFile callbacks one at a time, *)
(* the map worker_reads_in_progress_ guarded by                            *)
(* worker_reads_in_progress_lock_, and the chunk notifications             *)
(* ReadChunkDone / ReadChunkError that run outside the worker.             *)
(*                                                                         *)
(* Strings are sequences of character codes.  A VolumeArchive is named by  *)
(* the request id it was constructed with (request ids are unique, so one  *)
(* object is allocated per id); NULL is 0.                                 *)
(***************************************************************************)
EXTENDS Integers, Sequences, FiniteSets, TLC

\* ---------------------------------------------------------------- bounds
\* Number of ConstructMetadata calls made on one root.
MaxInsertions == 3
\* Size of the entry that ReadData is called on.
MaxDataSize == 4
\* Number of requests JavaScript submits in one run (request ids 1..MaxRequests).
MaxRequests == 3
\* Number of entries (headers) of the archive.
MaxHeaders == 2
\* Number of chunk requests the readers issue in one run.
MaxFetches == 1
\* Largest number of ReadData steps one ReadFile request needs.
MaxChunks == 2
\* Number of failures (of the reader, of the decoder, of a chunk request) in one run.
MaxFailures == 2

\* ------------------------------------------------------ program constants
NULL == 0
\* kPathDelimiter[] = "/"
kPathDelimiter == <<47>>
\* kReadBufferSizeMax = 512 * 1024
kReadBufferSizeMax == 512 * 1024

RequestIds == 1..MaxRequests

\* The archive the Volume serves: files "d/a", "d/b", ... and, returned after
\* the files inside it, the directory "d".
ArchiveEntries ==
  [i \in 1..MaxHeaders |->
     IF i < MaxHeaders
     THEN [path_name |-> <<100, 47, 96 + i>>, size |-> 10 * i,
           is_directory |-> FALSE, modification_time |-> 1000 + i]
     ELSE [path_name |-> <<100>>, size |-> 0,
           is_directory |-> TRUE, modification_time |-> 1000]]

ArchivePaths == [i \in 1..MaxHeaders |-> ArchiveEntries[i].path_name]
\* The file paths OpenFile is asked for: every entry, and one that is no entry.
FilePaths == {kPathDelimiter \o ArchivePaths[i] : i \in 1..MaxHeaders} \cup {kPathDelimiter \o <<122>>}
\* The (offset, length) ranges ReadFile is asked for.
Ranges == {<<0, 0>>, <<7, 1>>} \cup
  {<<7 * d, (MaxChunks - 1) * kReadBufferSizeMax + d>> : d \in {0, 1}}

VARIABLES
  queue,          \* worker_.message_loop(): the callbacks posted and not yet run
  pc,             \* position of the worker inside the running callback
  job,            \* the bound arguments of the running callback
  volume_archive, \* the callback's local VolumeArchive*
  post_cleanup_error, \* CleanupVolumeArchive's parameter
  returnValue,    \* CleanupVolumeArchive's local / result
  ret,            \* where CleanupVolumeArchive returns to
  length,         \* ReadFileCallback's local
  offset,         \* ReadFileCallback's local
  root_metadata,  \* ReadMetadataCallback's local
  lock,           \* worker_reads_in_progress_lock_: "free", "worker", "notifier"
  worker_reads_in_progress_, \* the map request id -> VolumeArchive*
  archives,       \* each VolumeArchive object: "none", "live", "deleted"
  error_message,  \* VolumeArchive::error_message() of each object
  reader,         \* state of each object's VolumeReaderJavaScriptStream
  header,         \* number of GetNextHeader calls made on each object
  outstanding,    \* request ids with a chunk request sent and not yet answered
  fetches,        \* number of chunk requests sent so far
  failures,       \* number of failures injected so far
  npc,            \* position of the thread that calls Volume from outside the
                  \* worker: in a notification or in ~Volume
  nid,            \* the notification's request_id
  nkind,          \* "done" (ReadChunkDone) or "error" (ReadChunkError)
  nva,            \* the notification's local VolumeArchive*
  messages,       \* everything handed to message_sender_, in order
  nextId,         \* the next unused request id
  jobs,           \* every request submitted so far, by request id
  finished,       \* request ids whose callback has returned
  initLog,        \* the result of Init() on each VolumeArchive: "none", "ok", "failed"
  readDataLog,    \* every ReadData call: request id, offset, length, result
  cleanupLog,     \* every CleanupVolumeArchive that returned
  useAfterDelete, \* a notification called into a deleted VolumeArchive
  root,           \* the dictionary ConstructMetadata is called on
  inserted,       \* the entries ConstructMetadata was called with, in order
  archive_data,   \* what the decoder has of the entry's content
  sessions,       \* per pair of chunk sizes, the VolumeArchive ReadData is called on
  buffers,        \* per pair of chunk sizes, the caller's buffer
  results,        \* per pair of chunk sizes, what the last ReadData returned
  request,        \* the arguments of the last ReadData
  previous        \* the arguments of the ReadData before it

vars == <<queue, pc, job, volume_archive, post_cleanup_error, returnValue, ret,
          length, offset, root_metadata, lock, worker_reads_in_progress_, archives,
          error_message, reader, header, outstanding, fetches, failures, npc, nid,
          nkind, nva, messages, nextId, jobs, finished, initLog, readDataLog,
          cleanupLog, useAfterDelete,
          root, inserted, archive_data, sessions, buffers, results, request,
          previous>>

workerLocals == <<job, volume_archive, post_cleanup_error, returnValue, ret,
                  length, offset, root_metadata>>
notifierVars == <<npc, nid, nkind, nva>>
submitVars == <<queue, nextId, jobs>>
logVars == <<initLog, readDataLog, cleanupLog, useAfterDelete>>
volumeVars == <<queue, pc, workerLocals, lock, worker_reads_in_progress_,
                archives, error_message, reader, header, outstanding, fetches,
                failures, notifierVars, messages, nextId, jobs, finished,
                logVars>>
metadataVars == <<root, inserted>>
readDataVars == <<archive_data, sessions, buffers, results, request, previous>>
componentVars == <<metadataVars, readDataVars>>

\* ------------------------------------------------------------- messages
\* Error texts.  The decoder's texts stand for VolumeArchive::error_message()
\* after the failing call.
kOpenReaderError == "Couldn't open volume reader."
kInitError == "decoder: init failed"
kHeaderError == "decoder: next header failed"
kReadDataError == "decoder: read data failed"
kCleanupError == "decoder: cleanup failed"

\* ------------------------------------------------------------- metadata
\* A pp::Var holding a dictionary, null or undefined.
VarDictionary(map) == [type |-> "dictionary", value |-> map]
VarNull == [type |-> "null"]
VarUndefined == [type |-> "undefined"]

\* std::stringstream << n: the decimal digits of n.
RECURSIVE Digits(_)
Digits(n) == IF n < 10 THEN <<48 + n>> ELSE Digits(n \div 10) \o <<48 + (n % 10)>>

StreamString(n) == IF n < 0 THEN <<45>> \o Digits(-n) ELSE Digits(n)

CreateEntry(name, is_directory, size, modification_time) ==
  IF is_directory
  THEN [isDirectory |-> TRUE, name |-> name, size |-> StreamString(size),
        modificationTime |-> StreamString(modification_time),
        entries |-> VarDictionary(<<>>)]
  ELSE [isDirectory |-> FALSE, name |-> name, size |-> StreamString(size),
        modificationTime |-> StreamString(modification_time)]

\* metadata.Get("entries"): undefined when the key is not set.
GetEntries(metadata) ==
  IF "entries" \in DOMAIN metadata THEN metadata.entries ELSE VarUndefined

\* metadata.Set("entries", var)
SetEntries(metadata, var) ==
  [key \in DOMAIN metadata \cup {"entries"} |->
     IF key = "entries" THEN var ELSE metadata[key]]

\* pp::VarDictionary(var): null when var holds no dictionary.
AsDictionary(var) == IF var.type = "dictionary" THEN var ELSE VarNull

\* dictionary.Get(name) is defined.
IsDefined(dictionary, name) ==
  dictionary.type = "dictionary" /\ name \in DOMAIN dictionary.value

\* dictionary.Set(name, metadata): nothing is set in a null Var.
DictionarySet(dictionary, name, metadata) ==
  IF dictionary.type = "dictionary"
  THEN VarDictionary([k \in DOMAIN dictionary.value \cup {name} |->
                        IF k = name THEN metadata ELSE dictionary.value[k]])
  ELSE dictionary

\* std::string::npos, defined as size_t(-1); position is an unsigned int of
\* size_t's width, so it equals npos exactly when nothing was found.
npos == -1

\* entry_path.find(kPathDelimiter): the position, from 0, of the first delimiter.
Find(entry_path) ==
  LET found == {i \in 1..Len(entry_path) : entry_path[i] = kPathDelimiter[1]}
  IN IF found = {} THEN npos
     ELSE (CHOOSE i \in found : \A j \in found : i <= j) - 1

\* Mutant: the entry replaces the old one without its entries.
KeepEntries_Dropped(entry_metadata, old_entry_metadata) == entry_metadata

\* entry_metadata.Set("entries", old_entry_metadata.Get("entries"))
KeepEntries(entry_metadata, old_entry_metadata) ==
  SetEntries(entry_metadata, GetEntries(old_entry_metadata))

\* ConstructMetadata, as the parent_metadata it leaves.
\* PP_DCHECK(old isDirectory) has no effect on the value and is left out.
RECURSIVE ConstructMetadata(_, _, _, _, _)
ConstructMetadata(entry_path, size, is_directory, modification_time, parent_metadata) ==
  IF entry_path = <<>> THEN parent_metadata
  ELSE
    LET parent_entries == AsDictionary(GetEntries(parent_metadata))
        position == Find(entry_path)
        entry_name == IF position = npos THEN entry_path
                      ELSE SubSeq(entry_path, 1, position)
        created == CreateEntry(entry_name, is_directory, size, modification_time)
        entry_metadata ==
          IF position = npos
          THEN IF IsDefined(parent_entries, entry_name)
               THEN KeepEntries(created, parent_entries.value[entry_name])
               ELSE created
          ELSE ConstructMetadata(
                 SubSeq(entry_path, position + Len(kPathDelimiter) + 1, Len(entry_path)),
                 size, is_directory, modification_time,
                 IF IsDefined(parent_entries, entry_name)
                 THEN parent_entries.value[entry_name]
                 ELSE CreateEntry(entry_name, TRUE, 0, modification_time))
    IN SetEntries(parent_metadata,
                  DictionarySet(parent_entries, entry_name, entry_metadata))

\* The value of root_metadata outside ReadMetadataCallback.
NoMetadata == CreateEntry(<<>>, FALSE, 0, 0)

\* ------------------------------------------------- VolumeArchive::ReadData
\* The entry's content: bytes that differ from one another and from 0.
kArchiveData == [i \in 1..MaxDataSize |-> 64 + i]

\* fake_lib_archive_config::archive_data: the content, or NULL.
ArchiveData == [null |-> FALSE, bytes |-> kArchiveData]
NoArchiveData == [null |-> TRUE, bytes |-> <<>>]

\* Pairs of kMinimumDataChunkSize and kMaximumDataChunkSize: below, around
\* and above the lengths that are read.
ChunkSizes ==
  {[kMinimumDataChunkSize |-> 1, kMaximumDataChunkSize |-> 2],
   [kMinimumDataChunkSize |-> 2, kMaximumDataChunkSize |-> 3],
   [kMinimumDataChunkSize |-> 16, kMaximumDataChunkSize |-> 32]}

kArchiveReadDataErrorPrefix == "Error at reading data: "
kArchiveError == "An archive error."

\* Mutant: the decoder's text without the prefix.
ArchiveError_NoPrefix(prefix, text) == text

\* The session's error message after a failed decoder call.
ArchiveError(prefix, text) == prefix \o text

\* A VolumeArchive after Init and GetNextHeader: the decoder at the start of
\* the entry, nothing decoded ahead, the cursor at 0.
NewSession ==
  [position |-> 0, decompressed |-> <<>>, last_read_data_offset_ |-> 0,
   error_message |-> ""]

Min(a, b) == IF a < b THEN a ELSE b
Max(a, b) == IF a > b THEN a ELSE b

\* The bytes asked of the decoder in one call when bytes are wanted: at
\* least the minimum chunk (read ahead), at most the maximum.
DataChunkSize(chunk, bytes) ==
  Max(chunk.kMinimumDataChunkSize, Min(bytes, chunk.kMaximumDataChunkSize))

\* One decoder call, readEntryData(maxBytes), with nothing decoded ahead: the
\* decoder moves forward over what it returns.
DecodeChunk(data, chunk, session, bytes) ==
  LET from == session.position
      to == Min(from + DataChunkSize(chunk, bytes), Len(data.bytes))
  IN [session EXCEPT !.position = to,
                     !.decompressed = SubSeq(data.bytes, from + 1, to)]

\* The decoder is at the end of the entry.
EndOfData(data, session) == session.position >= Len(data.bytes)

Failed(session) ==
  [session EXCEPT !.error_message =
     ArchiveError(kArchiveReadDataErrorPrefix, kArchiveError)]

\* Mutant: a read behind the cursor goes on from the cursor.
NeedsRestart_Never(read_offset, cursor) == FALSE

\* The decoder only moves forward: a read behind the cursor restarts the
\* decoding of the entry.
NeedsRestart(read_offset, cursor) == read_offset < cursor

Restart(session) ==
  [session EXCEPT !.position = 0, !.decompressed = <<>>,
                  !.last_read_data_offset_ = 0]

\* A read ahead of the cursor: the bytes in between are decoded and dropped.
RECURSIVE SkipTo(_, _, _, _)
SkipTo(data, chunk, session, read_offset) ==
  LET cursor == session.last_read_data_offset_
  IN IF cursor >= read_offset THEN [ok |-> TRUE, session |-> session]
     ELSE IF session.decompressed # <<>>
     THEN LET dropped == Min(Len(session.decompressed), read_offset - cursor)
          IN SkipTo(data, chunk,
                    [session EXCEPT
                       !.decompressed = SubSeq(@, dropped + 1, Len(@)),
                       !.last_read_data_offset_ = cursor + dropped],
                    read_offset)
     ELSE IF data.null THEN [ok |-> FALSE, session |-> Failed(session)]
     ELSE IF EndOfData(data, session) THEN [ok |-> TRUE, session |-> session]
     ELSE SkipTo(data, chunk, DecodeChunk(data, chunk, session, read_offset - cursor),
                 read_offset)

\* Mutant: the bytes are written and the rest of the buffer is cleared.
Write_ClearsRest(buffer, buffer_offset, bytes) ==
  [i \in 1..Len(buffer) |->
     IF i <= buffer_offset THEN buffer[i]
     ELSE IF i <= buffer_offset + Len(bytes) THEN bytes[i - buffer_offset]
     ELSE 255]

\* memcpy(buffer + buffer_offset, bytes)
Write(buffer, buffer_offset, bytes) ==
  [i \in 1..Len(buffer) |->
     IF i > buffer_offset /\ i <= buffer_offset + Len(bytes)
     THEN bytes[i - buffer_offset] ELSE buffer[i]]

\* Mutant: one decoder call serves the read, whatever its length.
MoreToCopy_OneCall(left_length, buffer_offset) ==
  left_length > 0 /\ buffer_offset = 0

\* The copy goes on, decoder call after decoder call, while bytes are left.
MoreToCopy(left_length, buffer_offset) == left_length > 0

\* The copy of left_length bytes from the cursor into the buffer.
RECURSIVE CopyData(_, _, _, _, _, _)
CopyData(data, chunk, session, left_length, buffer, buffer_offset) ==
  IF ~MoreToCopy(left_length, buffer_offset)
  THEN [ok |-> TRUE, session |-> session, buffer |-> buffer]
  ELSE IF session.decompressed # <<>>
  THEN LET size == Min(Len(session.decompressed), left_length)
       IN CopyData(data, chunk,
                   [session EXCEPT
                      !.decompressed = SubSeq(@, size + 1, Len(@)),
                      !.last_read_data_offset_ = @ + size],
                   left_length - size,
                   Write(buffer, buffer_offset,
                         SubSeq(session.decompressed, 1, size)),
                   buffer_offset + size)
  ELSE IF data.null
  THEN [ok |-> FALSE, session |-> Failed(session), buffer |-> buffer]
  ELSE IF EndOfData(data, session)
  THEN [ok |-> TRUE, session |-> session, buffer |-> buffer]
  ELSE CopyData(data, chunk, DecodeChunk(data, chunk, session, left_length),
                left_length, buffer, buffer_offset)

\* bool ReadData(offset, length, buffer)
ReadData(data, chunk, session, read_offset, read_length, buffer) ==
  LET start == IF NeedsRestart(read_offset, session.last_read_data_offset_)
               THEN Restart(session) ELSE session
      skipped == SkipTo(data, chunk, start, read_offset)
  IN IF ~skipped.ok
     THEN [ok |-> FALSE, session |-> skipped.session, buffer |-> buffer]
     ELSE CopyData(data, chunk, skipped.session, read_length, buffer, 0)

\* memset(buffer, 0, length)
kBufferFill == 0

\* No ReadData call yet.
NoRequest == [read_offset |-> 0, read_length |-> 0]

NoJob == [op |-> "none", request_id |-> NULL, file_path |-> <<>>,
          open_request_id |-> NULL, offset |-> 0, length |-> 0]

\* SendFileSystemError(file_system_id_, request_id, text); session is the
\* VolumeArchive whose operation failed (NULL when no VolumeArchive exists).
FileSystemError(request_id, text, session) ==
  [type |-> "FileSystemError", request_id |-> request_id, text |-> text,
   session |-> session, open_request_id |-> NULL, size |-> 0, has_more |-> FALSE,
   metadata |-> NoMetadata]

ReadMetadataDone(request_id, metadata) ==
  [type |-> "ReadMetadataDone", request_id |-> request_id, text |-> "",
   session |-> NULL, open_request_id |-> NULL, size |-> 0, has_more |-> FALSE,
   metadata |-> metadata]

OpenFileDone(request_id) ==
  [type |-> "OpenFileDone", request_id |-> request_id, text |-> "",
   session |-> NULL, open_request_id |-> NULL, size |-> 0, has_more |-> FALSE,
   metadata |-> NoMetadata]

CloseFileDone(request_id, open_request_id) ==
  [type |-> "CloseFileDone", request_id |-> request_id, text |-> "",
   session |-> NULL, open_request_id |-> open_request_id, size |-> 0, has_more |-> FALSE,
   metadata |-> NoMetadata]

ReadFileDone(request_id, size, has_more) ==
  [type |-> "ReadFileDone", request_id |-> request_id, text |-> "",
   session |-> NULL, open_request_id |-> NULL, size |-> size, has_more |-> has_more,
   metadata |-> NoMetadata]

FileChunkRequest(request_id) ==
  [type |-> "FileChunkRequest", request_id |-> request_id, text |-> "",
   session |-> NULL, open_request_id |-> NULL, size |-> 0, has_more |-> FALSE,
   metadata |-> NoMetadata]

\* ------------------------------------------------------------ the map
\* Mutant: the result of find() is used without the test against end().
GetVolumeArchive_NoEndCheck(map, request_id) == request_id

GetVolumeArchive(map, request_id) ==
  IF request_id \in DOMAIN map THEN map[request_id] ELSE NULL

\* Mutant: the VolumeArchive is not put in the map before Init.
MapInsert_Skip(map, request_id, va) == map

MapInsert(map, request_id, va) ==
  [k \in DOMAIN map \cup {request_id} |-> IF k \in DOMAIN map THEN map[k] ELSE va]

\* Mutant: the entry is left in the map.
MapErase_Skip(map, request_id) == map

MapErase(map, request_id) ==
  [k \in DOMAIN map \ {request_id} |-> map[k]]

\* Mutant: the lock is not taken.
CanAcquire_NoLock(l) == TRUE

\* Lock::Acquire returns only when nobody holds the lock.
CanAcquire(l) == l = "free"

\* Mutant: the lock is kept.
Release_Kept(l) == l

\* Lock::Release.
Release(l) == "free"

\* ------------------------------------------------------------------ Init
VolumeInit ==
  /\ queue = <<>>
  /\ pc = "idle"
  /\ job = NoJob
  /\ volume_archive = NULL
  /\ post_cleanup_error = FALSE
  /\ returnValue = TRUE
  /\ ret = "idle"
  /\ length = 0
  /\ offset = 0
  /\ root_metadata = NoMetadata
  /\ lock = "free"
  /\ worker_reads_in_progress_ = <<>>
  /\ archives = [r \in RequestIds |-> "none"]
  /\ error_message = [r \in RequestIds |-> ""]
  /\ reader = [r \in RequestIds |-> "idle"]
  /\ header = [r \in RequestIds |-> 0]
  /\ outstanding = {}
  /\ fetches = 0
  /\ failures = 0
  /\ npc = "idle"
  /\ nid = NULL
  /\ nkind = "done"
  /\ nva = NULL
  /\ messages = <<>>
  /\ nextId = 1
  /\ jobs = <<>>
  /\ finished = {}
  /\ initLog = [r \in RequestIds |-> "none"]
  /\ readDataLog = <<>>
  /\ cleanupLog = <<>>
  /\ useAfterDelete = FALSE

\* ConstructMetadata is called on a root directory, as ReadMetadataCallback
\* creates it.
MetadataInit ==
  /\ root = CreateEntry(kPathDelimiter, TRUE, 0, 0)
  /\ inserted = <<>>

\* ReadData is called on a VolumeArchive after Init and GetNextHeader.
ReadDataInit ==
  /\ sessions = [chunk \in ChunkSizes |-> NewSession]
  /\ buffers = [chunk \in ChunkSizes |-> <<>>]
  /\ results = [chunk \in ChunkSizes |-> TRUE]
  /\ request = NoRequest
  /\ previous = NoRequest

Init ==
  /\ VolumeInit
  /\ MetadataInit
  /\ ReadDataInit
  /\ archive_data = ArchiveData

\* The decoder has the entry's content, or has no data at all.
InitReadData ==
  /\ VolumeInit
  /\ MetadataInit
  /\ ReadDataInit
  /\ archive_data \in {ArchiveData, NoArchiveData}

\* The positions of ~Volume.
DestructorPositions == {"join", "cleanup", "destroyed"}

\* ----------------------------------------------------------- submissions
\* Volume::ReadMetadata / OpenFile / CloseFile / ReadFile post the callback
\* to the worker's message loop.  JavaScript uses a fresh request id for each
\* request, and names in ReadFile / CloseFile an open request that it has
\* seen succeed and has not closed.
Submit(j) ==
  /\ pc # "aborted"
  /\ npc \notin DestructorPositions
  /\ nextId <= MaxRequests
  /\ queue' = Append(queue, j)
  /\ jobs' = Append(jobs, j)
  /\ nextId' = nextId + 1
  /\ UNCHANGED <<componentVars,
                 pc, workerLocals, lock, worker_reads_in_progress_, archives,
                 error_message, reader, header, outstanding, fetches, failures,
                 notifierVars, messages, finished, logVars>>

IsOpen(open_request_id) ==
  /\ \E i \in 1..Len(messages) : messages[i] = OpenFileDone(open_request_id)
  /\ \A i \in 1..Len(jobs) :
       ~(jobs[i].op = "CloseFile" /\ jobs[i].open_request_id = open_request_id)

ReadMetadata ==
  Submit([NoJob EXCEPT !.op = "ReadMetadata", !.request_id = nextId])

OpenFile ==
  \E file_path \in FilePaths :
    Submit([NoJob EXCEPT !.op = "OpenFile", !.request_id = nextId,
                         !.file_path = file_path])

CloseFile ==
  \E open_request_id \in RequestIds :
    /\ IsOpen(open_request_id)
    /\ Submit([NoJob EXCEPT !.op = "CloseFile", !.request_id = nextId,
                            !.open_request_id = open_request_id])

ReadFile ==
  \E open_request_id \in RequestIds, range \in Ranges :
    /\ IsOpen(open_request_id)
    /\ Submit([NoJob EXCEPT !.op = "ReadFile", !.request_id = nextId,
                            !.open_request_id = open_request_id,
                            !.offset = range[1], !.length = range[2]])

\* ------------------------------------------------------ worker: helpers
Send(m) == messages' = Append(messages, m)

\* The callback returns to the message loop when it moves to "idle".
Return(next_pc) ==
  finished' = IF next_pc = "idle" THEN finished \cup {job.request_id} ELSE finished

\* A decoder call (Init, GetNextHeader, ReadData) is in progress.
InDecoderCall ==
  \/ pc \in {"cva_init", "rm_header", "of_header"}
  \/ pc = "rf_loop" /\ length > 0

\* A call of the reader or the decoder fails at most MaxFailures times a run.
MayFail(ok) ==
  /\ ~ok => failures < MaxFailures
  /\ failures' = IF ok THEN failures ELSE failures + 1

\* The decoder call can return: the reader is not waiting for a chunk.
\* A chunk error makes the call fail.
DecoderReturns(ok) ==
  /\ reader[volume_archive] # "awaiting"
  /\ IF reader[volume_archive] = "errored"
     THEN ~ok /\ UNCHANGED failures
     ELSE MayFail(ok)

ReaderConsumed == [reader EXCEPT ![volume_archive] = "idle"]

\* The reader asks JavaScript for a chunk (VolumeJavaScriptRequestor::
\* RequestFileChunk) during a decoder call, and either waits for it or goes on
\* (a read ahead).
RequestFileChunk ==
  /\ InDecoderCall
  /\ reader[volume_archive] = "idle"
  /\ volume_archive \notin outstanding
  /\ fetches < MaxFetches
  /\ fetches' = fetches + 1
  /\ outstanding' = outstanding \cup {volume_archive}
  /\ Send(FileChunkRequest(volume_archive))
  /\ \E wait \in BOOLEAN :
       reader' = [reader EXCEPT ![volume_archive] = IF wait THEN "awaiting" ELSE "idle"]
  /\ UNCHANGED <<componentVars,
                 pc, workerLocals, lock, worker_reads_in_progress_, archives,
                 error_message, header, failures, notifierVars, submitVars, finished, logVars>>

\* Mutant: a callback is run while another has not returned.
WorkerIdle_Reentrant(p) == p # "aborted"

\* The message loop of worker_, to which every callback is posted, takes the
\* next callback when the one before has returned.
WorkerIdle(p) == p = "idle"

\* ---------------------------------------------- CreateVolumeArchive
\* The message loop runs the next callback; ReadMetadataCallback and
\* OpenFileCallback begin with CreateVolumeArchive.
ReadMetadataCallback ==
  /\ WorkerIdle(pc)
  /\ queue # <<>>
  /\ Head(queue).op = "ReadMetadata"
  /\ job' = Head(queue)
  /\ queue' = Tail(queue)
  /\ pc' = "cva_open"
  /\ UNCHANGED <<componentVars,
                 volume_archive, post_cleanup_error, returnValue, ret, length,
                 offset, root_metadata, lock, worker_reads_in_progress_, archives,
                 error_message, reader, header, outstanding, fetches, failures,
                 notifierVars, messages, nextId, jobs, finished, logVars>>

OpenFileCallback ==
  /\ WorkerIdle(pc)
  /\ queue # <<>>
  /\ Head(queue).op = "OpenFile"
  /\ job' = Head(queue)
  /\ queue' = Tail(queue)
  /\ pc' = "cva_open"
  /\ UNCHANGED <<componentVars,
                 volume_archive, post_cleanup_error, returnValue, ret, length,
                 offset, root_metadata, lock, worker_reads_in_progress_, archives,
                 error_message, reader, header, outstanding, fetches, failures,
                 notifierVars, messages, nextId, jobs, finished, logVars>>

\* reader->Open(); on failure the error is sent and NULL returned, on success
\* the VolumeArchive is constructed.
CreateVolumeArchiveOpen ==
  /\ pc = "cva_open"
  /\ \E ok \in BOOLEAN :
       /\ MayFail(ok)
       /\ IF ok
          THEN /\ volume_archive' = job.request_id
               /\ archives' = [archives EXCEPT ![job.request_id] = "live"]
               /\ pc' = "cva_acquire"
               /\ UNCHANGED <<messages, finished>>
          ELSE /\ Send(FileSystemError(job.request_id, kOpenReaderError, NULL))
               /\ pc' = "idle"
               /\ Return("idle")
               /\ UNCHANGED <<volume_archive, archives>>
  /\ UNCHANGED <<componentVars,
                 job, post_cleanup_error, returnValue, ret, length, offset, root_metadata,
                 lock, worker_reads_in_progress_, error_message, reader, header,
                 outstanding, fetches, notifierVars, submitVars, logVars>>

CreateVolumeArchiveAcquire ==
  /\ pc = "cva_acquire"
  /\ CanAcquire(lock)
  /\ lock' = "worker"
  /\ pc' = "cva_insert"
  /\ UNCHANGED <<componentVars,
                 workerLocals, worker_reads_in_progress_, archives,
                 error_message, reader, header, outstanding, fetches, failures,
                 notifierVars, messages, submitVars, finished, logVars>>

\* insert, then Release.
CreateVolumeArchiveInsert ==
  /\ pc = "cva_insert"
  /\ worker_reads_in_progress_' =
       MapInsert(worker_reads_in_progress_, job.request_id, volume_archive)
  /\ lock' = Release(lock)
  /\ pc' = "cva_init"
  /\ UNCHANGED <<componentVars,
                 workerLocals, archives, error_message, reader, header,
                 outstanding, fetches, failures, notifierVars, messages, submitVars,
                 finished, logVars>>

\* Where the caller of CreateVolumeArchive goes on with a non-NULL result.
AfterCreate(op) == IF op = "ReadMetadata" THEN "rm_header" ELSE "of_header"

\* Mutant: the caller does not test the result against NULL.
AfterInitError_IgnoreNull(op) == AfterCreate(op)

\* Where it goes on when Init failed: CreateVolumeArchive returns NULL and
\* the caller returns.
AfterInitError(op) == "idle"

\* volume_archive->Init(); on failure the error is sent, the VolumeArchive
\* cleaned up and NULL returned, so the callback returns.
CreateVolumeArchiveInit ==
  /\ pc = "cva_init"
  /\ \E ok \in BOOLEAN :
       /\ DecoderReturns(ok)
       /\ IF ok
          THEN /\ pc' = AfterCreate(job.op)
               \* back in ReadMetadataCallback: root_metadata = CreateEntry(...)
               /\ root_metadata' = IF job.op = "ReadMetadata"
                                   THEN CreateEntry(kPathDelimiter, TRUE, 0, 0)
                                   ELSE root_metadata
               /\ UNCHANGED <<error_message, messages, post_cleanup_error, ret>>
          ELSE /\ error_message' = [error_message EXCEPT ![volume_archive] = kInitError]
               /\ Send(FileSystemError(job.request_id,
                                       error_message'[volume_archive], volume_archive))
               /\ post_cleanup_error' = FALSE
               /\ ret' = AfterInitError(job.op)
               /\ pc' = "cl_acquire"
               /\ UNCHANGED root_metadata
       /\ initLog' = [initLog EXCEPT ![volume_archive] = IF ok THEN "ok" ELSE "failed"]
  /\ reader' = ReaderConsumed
  /\ UNCHANGED <<componentVars,
                 job, volume_archive, returnValue, length, offset, lock,
                 worker_reads_in_progress_, archives, header, outstanding,
                 fetches, notifierVars, submitVars, finished, readDataLog,
                 cleanupLog, useAfterDelete>>

\* ---------------------------------------------- CleanupVolumeArchive
CleanupVolumeArchiveAcquire ==
  /\ pc = "cl_acquire"
  /\ CanAcquire(lock)
  /\ lock' = "worker"
  /\ returnValue' = TRUE
  /\ pc' = "cl_erase"
  /\ UNCHANGED <<componentVars,
                 job, volume_archive, post_cleanup_error, ret, length, offset, root_metadata,
                 worker_reads_in_progress_, archives, error_message, reader,
                 header, outstanding, fetches, failures, notifierVars, messages,
                 submitVars, finished, logVars>>

\* erase(volume_archive->request_id()), then Release.
CleanupVolumeArchiveErase ==
  /\ pc = "cl_erase"
  /\ worker_reads_in_progress_' = MapErase(worker_reads_in_progress_, volume_archive)
  /\ lock' = Release(lock)
  /\ pc' = "cl_cleanup"
  /\ UNCHANGED <<componentVars,
                 workerLocals, archives, error_message, reader, header,
                 outstanding, fetches, failures, notifierVars, messages, submitVars,
                 finished, logVars>>

\* Mutant: a failed Cleanup() is posted whatever post_cleanup_error is.
PostsCleanupError_Always(ok, post) == ~ok

\* if (!volume_archive->Cleanup() && post_cleanup_error)
PostsCleanupError(ok, post) == ~ok /\ post

CleanupVolumeArchiveCleanup ==
  /\ pc = "cl_cleanup"
  /\ \E ok \in BOOLEAN :
       /\ MayFail(ok)
       /\ error_message' = IF ok THEN error_message
                           ELSE [error_message EXCEPT ![volume_archive] = kCleanupError]
       /\ IF PostsCleanupError(ok, post_cleanup_error)
          THEN /\ Send(FileSystemError(volume_archive,
                                       error_message'[volume_archive], volume_archive))
               /\ returnValue' = FALSE
          ELSE UNCHANGED <<messages, returnValue>>
       /\ cleanupLog' = Append(cleanupLog,
            [session |-> volume_archive, ok |-> ok, post |-> post_cleanup_error,
             request_id |-> job.request_id])
  /\ pc' = "cl_delete"
  /\ UNCHANGED <<componentVars,
                 job, volume_archive, post_cleanup_error, ret, length, offset, root_metadata,
                 lock, worker_reads_in_progress_, archives, reader, header,
                 outstanding, fetches, notifierVars, submitVars, finished,
                 initLog, readDataLog, useAfterDelete>>

\* delete volume_archive; return returnValue;
CleanupVolumeArchiveDelete ==
  /\ pc = "cl_delete"
  /\ archives' = [archives EXCEPT ![volume_archive] = "deleted"]
  /\ pc' = ret
  /\ Return(ret)
  /\ UNCHANGED <<componentVars,
                 workerLocals, lock, worker_reads_in_progress_, error_message,
                 reader, header, outstanding, fetches, failures, notifierVars, messages,
                 submitVars, logVars>>

\* ------------------------------------------------------ GetNextHeader
\* The k-th GetNextHeader call on a VolumeArchive returns entry k of the
\* archive, and NULL as path_name after the last entry.
EndOfArchive(k) == k > MaxHeaders

\* ----------------------------------------------- ReadMetadataCallback
\* Mutant: the callback returns without CleanupVolumeArchive.
ReadMetadataHeaderError_NoCleanup == "idle"

\* After the error is sent: CleanupVolumeArchive(volume_archive, false).
ReadMetadataHeaderError == "cl_acquire"

\* One turn of the for (;;) loop.
ReadMetadataGetNextHeader ==
  /\ pc = "rm_header"
  /\ \E ok \in BOOLEAN :
       /\ DecoderReturns(ok)
       /\ IF ~ok
          THEN /\ error_message' = [error_message EXCEPT ![volume_archive] = kHeaderError]
               /\ Send(FileSystemError(job.request_id,
                                       error_message'[volume_archive], volume_archive))
               /\ post_cleanup_error' = FALSE
               /\ ret' = "idle"
               /\ pc' = ReadMetadataHeaderError
               /\ Return(ReadMetadataHeaderError)
               /\ root_metadata' = NoMetadata
          ELSE /\ UNCHANGED <<error_message, messages, finished>>
               /\ IF EndOfArchive(header[volume_archive] + 1)
                  THEN /\ post_cleanup_error' = TRUE
                       /\ ret' = "rm_done"
                       /\ pc' = "cl_acquire"
                       /\ UNCHANGED root_metadata
                  ELSE /\ root_metadata' =
                            LET entry == ArchiveEntries[header[volume_archive] + 1]
                            IN ConstructMetadata(entry.path_name, entry.size,
                                                 entry.is_directory,
                                                 entry.modification_time,
                                                 root_metadata)
                       /\ UNCHANGED <<post_cleanup_error, ret, pc>>
  /\ header' = [header EXCEPT ![volume_archive] = @ + 1]
  /\ reader' = ReaderConsumed
  /\ UNCHANGED <<componentVars,
                 job, volume_archive, returnValue, length, offset, lock,
                 worker_reads_in_progress_, archives, outstanding, fetches,
                 notifierVars, submitVars, logVars>>

\* After CleanupVolumeArchive(volume_archive, true): return if it failed,
\* else SendReadMetadataDone.
ReadMetadataDoneStep ==
  /\ pc = "rm_done"
  /\ IF returnValue
     THEN Send(ReadMetadataDone(job.request_id, root_metadata))
     ELSE UNCHANGED messages
  /\ pc' = "idle"
  /\ Return("idle")
  /\ root_metadata' = NoMetadata
  /\ UNCHANGED <<componentVars,
                 job, volume_archive, post_cleanup_error, returnValue, ret,
                 length, offset, lock, worker_reads_in_progress_, archives,
                 error_message, reader, header, outstanding, fetches, failures,
                 notifierVars, submitVars, logVars>>

\* --------------------------------------------------- OpenFileCallback
\* file_path.compare(std::string(kPathDelimiter) + path_name) == 0
FileReached(file_path, path_name) == file_path = kPathDelimiter \o path_name

\* Mutant: the callback returns without CleanupVolumeArchive.
OpenFileHeaderError_NoCleanup == "idle"

\* Mutant: the for (;;) loop goes on after the error is sent.
OpenFileHeaderError_Continue == "of_header"

\* After the error is sent: CleanupVolumeArchive(volume_archive, false).
OpenFileHeaderError == "cl_acquire"

\* One turn of the for (;;) loop.  At the end of the archive PP_DCHECK(false)
\* stops a debug build (dcheck) and is nothing in a release build.
OpenFileGetNextHeader ==
  /\ pc = "of_header"
  /\ \E ok \in BOOLEAN, dcheck \in BOOLEAN :
       /\ DecoderReturns(ok)
       /\ IF ~ok
          THEN /\ error_message' = [error_message EXCEPT ![volume_archive] = kHeaderError]
               /\ Send(FileSystemError(job.request_id,
                                       error_message'[volume_archive], volume_archive))
               /\ post_cleanup_error' = FALSE
               /\ ret' = "idle"
               /\ pc' = OpenFileHeaderError
               /\ Return(OpenFileHeaderError)
          ELSE /\ UNCHANGED <<error_message, post_cleanup_error, ret>>
               /\ IF EndOfArchive(header[volume_archive] + 1)
                  THEN IF dcheck
                       THEN /\ pc' = "aborted"
                            /\ UNCHANGED <<messages, finished>>
                       ELSE /\ Send(OpenFileDone(job.request_id))
                            /\ pc' = "idle"
                            /\ Return("idle")
                  ELSE IF FileReached(job.file_path,
                                      ArchivePaths[header[volume_archive] + 1])
                       THEN /\ Send(OpenFileDone(job.request_id))
                            /\ pc' = "idle"
                            /\ Return("idle")
                       ELSE UNCHANGED <<messages, pc, finished>>
  /\ header' = [header EXCEPT ![volume_archive] = @ + 1]
  /\ reader' = ReaderConsumed
  /\ UNCHANGED <<componentVars,
                 job, volume_archive, returnValue, length, offset, root_metadata, lock,
                 worker_reads_in_progress_, archives, outstanding, fetches,
                 notifierVars, submitVars, logVars>>

\* -------------------------------------------------- CloseFileCallback
\* GetVolumeArchive(open_request_id) without the lock, then
\* CleanupVolumeArchive(volume_archive, false).  A NULL volume_archive fails
\* PP_DCHECK or is dereferenced: the process stops.
CloseFileCallback ==
  /\ WorkerIdle(pc)
  /\ queue # <<>>
  /\ Head(queue).op = "CloseFile"
  /\ job' = Head(queue)
  /\ queue' = Tail(queue)
  /\ volume_archive' = GetVolumeArchive(worker_reads_in_progress_,
                                        Head(queue).open_request_id)
  /\ IF volume_archive' = NULL
     THEN /\ pc' = "aborted"
          /\ UNCHANGED <<post_cleanup_error, ret>>
     ELSE /\ post_cleanup_error' = FALSE
          /\ ret' = "cf_done"
          /\ pc' = "cl_acquire"
  /\ UNCHANGED <<componentVars,
                 returnValue, length, offset, root_metadata, lock, worker_reads_in_progress_,
                 archives, error_message, reader, header, outstanding, fetches, failures,
                 notifierVars, messages, nextId, jobs, finished, logVars>>

\* if (!CleanupVolumeArchive(volume_archive, false)) the error is sent with
\* request_id, reading error_message() of the VolumeArchive just deleted;
\* else SendCloseFileDone.
CloseFileDoneStep ==
  /\ pc = "cf_done"
  /\ IF ~returnValue
     THEN \E text \in {kInitError, kHeaderError, kReadDataError, kCleanupError, ""} :
            Send(FileSystemError(job.request_id, text, volume_archive))
     ELSE Send(CloseFileDone(job.request_id, job.open_request_id))
  /\ pc' = "idle"
  /\ Return("idle")
  /\ UNCHANGED <<componentVars,
                 workerLocals, lock, worker_reads_in_progress_, archives,
                 error_message, reader, header, outstanding, fetches, failures,
                 notifierVars, submitVars, logVars>>

\* --------------------------------------------------- ReadFileCallback
ReadFileCallback ==
  /\ WorkerIdle(pc)
  /\ queue # <<>>
  /\ Head(queue).op = "ReadFile"
  /\ job' = Head(queue)
  /\ queue' = Tail(queue)
  /\ offset' = Head(queue).offset
  /\ length' = Head(queue).length
  /\ volume_archive' = GetVolumeArchive(worker_reads_in_progress_,
                                        Head(queue).open_request_id)
  /\ pc' = IF volume_archive' = NULL THEN "aborted" ELSE "rf_loop"
  /\ UNCHANGED <<componentVars,
                 post_cleanup_error, returnValue, ret, root_metadata, lock,
                 worker_reads_in_progress_, archives, error_message, reader,
                 header, outstanding, fetches, failures, notifierVars, messages,
                 nextId, jobs, finished, logVars>>

\* Mutant: >= for >.
HasMoreData_OffByOne(len) == len >= kReadBufferSizeMax

\* if (length > kReadBufferSizeMax) { has_more_data = true; ... }
HasMoreData(len) == len > kReadBufferSizeMax

BufferSize(len) == IF HasMoreData(len) THEN kReadBufferSizeMax ELSE len

\* Mutant: the error goes to the open request.
ReadErrorRequestId_Open(j) == j.open_request_id

\* The request id SendFileSystemError gets when ReadData fails.
ReadErrorRequestId(j) == j.request_id

\* while (length > 0) is over.
ReadFileEnd ==
  /\ pc = "rf_loop"
  /\ ~(length > 0)
  /\ pc' = "idle"
  /\ Return("idle")
  /\ UNCHANGED <<componentVars,
                 workerLocals, lock, worker_reads_in_progress_, archives,
                 error_message, reader, header, outstanding, fetches, failures,
                 notifierVars, messages, submitVars, logVars>>

\* One turn of the while loop: ReadData, then the error or the chunk.
ReadFileStep ==
  /\ pc = "rf_loop"
  /\ length > 0
  /\ \E ok \in BOOLEAN :
       /\ DecoderReturns(ok)
       /\ readDataLog' = Append(readDataLog,
            [request_id |-> job.request_id, session |-> volume_archive,
             offset |-> offset, length |-> BufferSize(length), ok |-> ok])
       /\ IF ~ok
          THEN /\ error_message' = [error_message EXCEPT ![volume_archive] = kReadDataError]
               /\ Send(FileSystemError(ReadErrorRequestId(job),
                                       error_message'[volume_archive], volume_archive))
               /\ pc' = "idle"
               /\ Return("idle")
               /\ UNCHANGED <<length, offset>>
          ELSE /\ Send(ReadFileDone(job.request_id, BufferSize(length),
                                    HasMoreData(length)))
               /\ length' = length - BufferSize(length)
               /\ offset' = offset + BufferSize(length)
               /\ UNCHANGED <<error_message, pc, finished>>
  /\ reader' = ReaderConsumed
  /\ UNCHANGED <<componentVars,
                 job, volume_archive, post_cleanup_error, returnValue, ret,
                 root_metadata, lock, worker_reads_in_progress_, archives,
                 header, outstanding, fetches, notifierVars, submitVars,
                 initLog, cleanupLog, useAfterDelete>>

\* ------------------------------------ ReadChunkDone / ReadChunkError
\* JavaScript answers an outstanding chunk request with the chunk
\* (ReadChunkDone) or with an error (ReadChunkError), outside the worker.
\* The notification begins when Acquire returns.
ReadChunkAcquire ==
  /\ pc # "aborted"
  /\ npc = "idle"
  /\ CanAcquire(lock)
  /\ \E request_id \in outstanding, kind \in {"done", "error"} :
       /\ MayFail(kind = "done")
       /\ nid' = request_id
       /\ nkind' = kind
       /\ outstanding' = outstanding \ {request_id}
  /\ lock' = "notifier"
  /\ npc' = "lookup"
  /\ UNCHANGED <<componentVars,
                 queue, pc, workerLocals, worker_reads_in_progress_, archives,
                 error_message, reader, header, fetches, nva, messages, nextId,
                 jobs, finished, logVars>>

\* VolumeArchive* volume_archive = GetVolumeArchive(request_id);
ReadChunkLookup ==
  /\ pc # "aborted"
  /\ npc = "lookup"
  /\ nva' = GetVolumeArchive(worker_reads_in_progress_, nid)
  /\ npc' = IF nva' = NULL THEN "release" ELSE "signal"
  /\ UNCHANGED <<componentVars,
                 queue, pc, workerLocals, lock, worker_reads_in_progress_,
                 archives, error_message, reader, header, outstanding, fetches, failures,
                 nid, nkind, messages, nextId, jobs, finished, logVars>>

\* What SetBufferAndSignal / ReadErrorSignal leave in the reader.
Signalled(kind) == IF kind = "done" THEN "filled" ELSE "errored"

\* volume_archive->reader() and SetBufferAndSignal / ReadErrorSignal.  On a
\* deleted VolumeArchive the call is undefined: any reader state may result.
ReadChunkSignal ==
  /\ pc # "aborted"
  /\ npc = "signal"
  /\ IF archives[nva] = "live"
     THEN /\ reader' = [reader EXCEPT ![nva] = Signalled(nkind)]
          /\ UNCHANGED useAfterDelete
     ELSE /\ useAfterDelete' = TRUE
          /\ \E any \in {"idle", "awaiting", "filled", "errored"} :
               reader' = [reader EXCEPT ![nva] = any]
  /\ npc' = "release"
  /\ UNCHANGED <<componentVars,
                 queue, pc, workerLocals, lock, worker_reads_in_progress_,
                 archives, error_message, header, outstanding, fetches, failures, nid,
                 nkind, nva, messages, nextId, jobs, finished, initLog,
                 readDataLog, cleanupLog>>

ReadChunkRelease ==
  /\ pc # "aborted"
  /\ npc = "release"
  /\ lock' = Release(lock)
  /\ npc' = "idle"
  /\ nid' = NULL
  /\ nkind' = "done"
  /\ nva' = NULL
  /\ UNCHANGED <<componentVars,
                 queue, pc, workerLocals, worker_reads_in_progress_, archives,
                 error_message, reader, header, outstanding, fetches, failures, messages,
                 nextId, jobs, finished, logVars>>

\* ------------------------------------------------------------ ~Volume
\* The Volume is destructed by the thread that calls its other methods, so
\* when no notification is running and with none running before it is over.
\* worker_.Join() is called.
VolumeDestructorJoin ==
  /\ pc # "aborted"
  /\ npc = "idle"
  /\ npc' = "join"
  /\ UNCHANGED <<componentVars,
                 queue, pc, workerLocals, lock, worker_reads_in_progress_,
                 archives, error_message, reader, header, outstanding, fetches,
                 failures, nid, nkind, nva, messages, nextId, jobs, finished,
                 logVars>>

\* Mutant: the sessions are destroyed without waiting for the worker.
WorkerStopped_NoJoin(p, q) == TRUE

\* Join returns when the worker has run every callback posted to it.
WorkerStopped(p, q) == p = "idle" /\ q = <<>>

VolumeDestructorJoined ==
  /\ npc = "join"
  /\ WorkerStopped(pc, queue)
  /\ npc' = "cleanup"
  /\ UNCHANGED <<componentVars,
                 queue, pc, workerLocals, lock, worker_reads_in_progress_,
                 archives, error_message, reader, header, outstanding, fetches,
                 failures, nid, nkind, nva, messages, nextId, jobs, finished,
                 logVars>>

\* The entries of the map the for loop has not reached: it deletes what it
\* visits and erases nothing.
NotVisited ==
  {id \in DOMAIN worker_reads_in_progress_ :
     archives[worker_reads_in_progress_[id]] = "live"}

\* One turn of the for loop, in the order of the keys: Cleanup(), its result
\* ignored, and delete.
VolumeDestructorCleanup ==
  /\ npc = "cleanup"
  /\ NotVisited # {}
  /\ LET iterator == CHOOSE id \in NotVisited : \A other \in NotVisited : id <= other
         second == worker_reads_in_progress_[iterator]
     IN \E ok \in BOOLEAN :
          /\ MayFail(ok)
          /\ error_message' = IF ok THEN error_message
                              ELSE [error_message EXCEPT ![second] = kCleanupError]
          /\ archives' = [archives EXCEPT ![second] = "deleted"]
  /\ UNCHANGED <<componentVars,
                 queue, pc, workerLocals, lock, worker_reads_in_progress_,
                 reader, header, outstanding, fetches, notifierVars, messages,
                 nextId, jobs, finished, logVars>>

\* After the loop: delete requestor_; the Volume is gone.
VolumeDestructorEnd ==
  /\ npc = "cleanup"
  /\ NotVisited = {}
  /\ npc' = "destroyed"
  /\ UNCHANGED <<componentVars,
                 queue, pc, workerLocals, lock, worker_reads_in_progress_,
                 archives, error_message, reader, header, outstanding, fetches,
                 failures, nid, nkind, nva, messages, nextId, jobs, finished,
                 logVars>>

\* --------------------------------------------- ConstructMetadata alone
\* The entries ConstructMetadata is called with: paths with and without a
\* leading or trailing delimiter, the empty path, files and directories, and
\* two values of (size, modification_time).
EntryPaths ==
  {<<47, 97, 47, 98, 46, 116, 120, 116>>, <<47, 97>>, <<97, 47, 98>>,
   <<97, 47, 99>>, <<97>>, <<97, 47>>, <<>>}

\* (size, modification_time)
EntryAttributes == {<<0, 1>>, <<5, 2>>}

\* ConstructMetadata(path_name, size, is_directory, modification_time, &root)
ConstructMetadataCall ==
  /\ Len(inserted) < MaxInsertions
  /\ \E path_name \in EntryPaths, is_directory \in BOOLEAN,
        attributes \in EntryAttributes :
       LET size == attributes[1]
           modification_time == attributes[2]
       IN /\ root' = ConstructMetadata(path_name, size, is_directory,
                                       modification_time, root)
          /\ inserted' = Append(inserted,
               [path_name |-> path_name, size |-> size,
                is_directory |-> is_directory,
                modification_time |-> modification_time])
  /\ UNCHANGED <<volumeVars, readDataVars>>

\* ---------------------------------------------------- ReadData alone
\* ReadData(offset, length, buffer) on a buffer of length bytes set to
\* kBufferFill, the same call on each pair of chunk sizes.  The offsets lie
\* in the entry or at its end, the lengths reach beyond its size.
ReadDataCall ==
  \E read_offset \in 0..MaxDataSize, read_length \in 1..(2 * MaxDataSize) :
    LET buffer == [i \in 1..read_length |-> kBufferFill]
        returned == [chunk \in ChunkSizes |->
                       ReadData(archive_data, chunk, sessions[chunk],
                                read_offset, read_length, buffer)]
    IN /\ sessions' = [chunk \in ChunkSizes |-> returned[chunk].session]
       /\ buffers' = [chunk \in ChunkSizes |-> returned[chunk].buffer]
       /\ results' = [chunk \in ChunkSizes |-> returned[chunk].ok]
       /\ request' = [read_offset |-> read_offset, read_length |-> read_length]
       /\ previous' = request
       /\ UNCHANGED <<volumeVars, metadataVars, archive_data>>

\* ------------------------------------------------------------------ Next
Next ==
  \/ ReadMetadata
  \/ OpenFile
  \/ CloseFile
  \/ ReadFile
  \/ RequestFileChunk
  \/ ReadMetadataCallback
  \/ OpenFileCallback
  \/ CloseFileCallback
  \/ ReadFileCallback
  \/ CreateVolumeArchiveOpen
  \/ CreateVolumeArchiveAcquire
  \/ CreateVolumeArchiveInsert
  \/ CreateVolumeArchiveInit
  \/ CleanupVolumeArchiveAcquire
  \/ CleanupVolumeArchiveErase
  \/ CleanupVolumeArchiveCleanup
  \/ CleanupVolumeArchiveDelete
  \/ ReadMetadataGetNextHeader
  \/ ReadMetadataDoneStep
  \/ OpenFileGetNextHeader
  \/ CloseFileDoneStep
  \/ ReadFileEnd
  \/ ReadFileStep
  \/ ReadChunkAcquire
  \/ ReadChunkLookup
  \/ ReadChunkSignal
  \/ ReadChunkRelease

Spec == Init /\ [][Next]_vars

\* The Volume's life with its destruction.
NextDestroy ==
  \/ Next
  \/ VolumeDestructorJoin
  \/ VolumeDestructorJoined
  \/ VolumeDestructorCleanup
  \/ VolumeDestructorEnd

SpecDestroy == Init /\ [][NextDestroy]_vars

\* ConstructMetadata called on a root directory, entry after entry.
NextMetadata == ConstructMetadataCall

SpecMetadata == Init /\ [][NextMetadata]_vars

\* ReadData called again and again on one open entry.
NextReadData == ReadDataCall

SpecReadData == InitReadData /\ [][NextReadData]_vars

\* ============================================================ properties
\* Helpers of the properties.
MessageIndexes == 1..Len(messages)

IsError(m) == m.type = "FileSystemError"

\* The callback of request c has been taken from the message loop.
Started(c) ==
  /\ c \in 1..Len(jobs)
  /\ \A i \in 1..Len(queue) : queue[i].request_id # c

\* A CloseFile naming the open request a has begun to run.
CloseStarted(a) ==
  \E c \in 1..Len(jobs) :
    jobs[c].op = "CloseFile" /\ jobs[c].open_request_id = a /\ Started(c)

\* The messages of request r, in order.
MessagesOf(r) ==
  LET Test(m) == m.request_id = r /\ m.type # "FileChunkRequest"
  IN SelectSeq(messages, Test)

\* The ReadData calls of request r, in order.
ReadDataOf(r) ==
  LET Test(e) == e.request_id = r
  IN SelectSeq(readDataLog, Test)

\* The callback of request c has been taken from the message loop and has not
\* returned.
Running(c) == Started(c) /\ c \notin finished

\* C1: a chunk notification never calls into a VolumeArchive that has been
\* deleted: while a notification holds the VolumeArchive it found, that
\* VolumeArchive is still in the map, alive, and the lock is the
\* notification's, so that the worker's erase and delete have not happened;
\* and a deleted VolumeArchive is in the map no more, so that a notification
\* beginning after the erase does not find it.
C1_NotificationNeverUsesDeletedArchive ==
  /\ ~useAfterDelete
  /\ npc = "signal" =>
       /\ lock = "notifier"
       /\ archives[nva] = "live"
       /\ nid \in DOMAIN worker_reads_in_progress_
       /\ worker_reads_in_progress_[nid] = nva
       /\ volume_archive = nva => pc \notin {"cl_erase", "cl_cleanup", "cl_delete"}
  /\ \A a \in DOMAIN worker_reads_in_progress_ :
       archives[worker_reads_in_progress_[a]] = "live"

\* The notification has found the VolumeArchive and the worker, in
\* CleanupVolumeArchive of the same VolumeArchive, waits for the lock.
C1_Witness ==
  /\ npc = "signal"
  /\ pc = "cl_acquire"
  /\ volume_archive = nva

\* C2: every step of a notification whose request id is not in the map
\* changes nothing but the lock and the notification's own locals: no message,
\* no change of the map, of any VolumeArchive or of the worker.
C2_AbsentNotificationChangesNothing ==
  [][(/\ npc' # npc
      /\ (IF npc = "idle" THEN nid' ELSE nid) \notin DOMAIN worker_reads_in_progress_)
     => UNCHANGED <<messages, worker_reads_in_progress_, archives,
                    error_message, reader, header, pc, workerLocals, queue,
                    jobs, finished, logVars>>]_vars

\* A notification finds nothing for a request id that a CloseFile removed.
C2_Witness ==
  /\ npc = "release"
  /\ nva = NULL
  /\ \E c \in finished :
       jobs[c].op = "CloseFile" /\ jobs[c].open_request_id = nid

\* C3: when Cleanup() fails in a CloseFile, an error is sent with the close
\* request's id, none with the open request's id, and CloseFileDone is not
\* sent for the close request.
C3_CloseTeardownErrorUsesCloseId ==
  \A i \in 1..Len(cleanupLog) :
    LET e == cleanupLog[i]
        c == e.request_id
    IN (jobs[c].op = "CloseFile" /\ ~e.ok /\ c \in finished) =>
         /\ \E k \in MessageIndexes :
              IsError(messages[k]) /\ messages[k].request_id = c
         /\ \A k \in MessageIndexes :
              IsError(messages[k]) => messages[k].request_id # jobs[c].open_request_id
         /\ \A k \in MessageIndexes :
              ~(messages[k].type = "CloseFileDone" /\ messages[k].request_id = c)

\* C4: once CleanupVolumeArchive has come to Cleanup(), whatever Cleanup()
\* returns and whatever post_cleanup_error is, the VolumeArchive's request id
\* is not in the map and GetVolumeArchive returns NULL for it.
C4_CleanupAlwaysErases ==
  /\ \A i \in 1..Len(cleanupLog) :
       /\ cleanupLog[i].session \notin DOMAIN worker_reads_in_progress_
       /\ GetVolumeArchive(worker_reads_in_progress_, cleanupLog[i].session) = NULL
  /\ pc \in {"cl_cleanup", "cl_delete"} =>
       volume_archive \notin DOMAIN worker_reads_in_progress_

\* CleanupVolumeArchive has returned after a failed Cleanup() with
\* post_cleanup_error set, and after one with it clear.
C4_Witness ==
  /\ \E i \in 1..Len(cleanupLog) :
       /\ ~cleanupLog[i].ok
       /\ cleanupLog[i].post
       /\ archives[cleanupLog[i].session] = "deleted"
  /\ \E i \in 1..Len(cleanupLog) :
       /\ ~cleanupLog[i].ok
       /\ ~cleanupLog[i].post
       /\ archives[cleanupLog[i].session] = "deleted"

\* C5: when Init() fails, the error with the decoder's message is sent for
\* the request, GetNextHeader is never called on the VolumeArchive, no
\* success message is sent, and when the callback has returned the
\* VolumeArchive is out of the map and the error is the request's only message.
C5_InitFailureRemovesSession ==
  \A a \in RequestIds :
    initLog[a] = "failed" =>
      /\ \E k \in MessageIndexes : messages[k] = FileSystemError(a, kInitError, a)
      /\ header[a] = 0
      /\ \A k \in MessageIndexes :
           messages[k].request_id = a =>
             messages[k].type \notin {"ReadMetadataDone", "OpenFileDone"}
      /\ a \in finished =>
           /\ a \notin DOMAIN worker_reads_in_progress_
           /\ archives[a] = "deleted"
           /\ MessagesOf(a) = <<FileSystemError(a, kInitError, a)>>

\* A ReadMetadata and an OpenFile have both returned after Init() failed.
C5_Witness ==
  \E a, b \in finished :
    /\ initLog[a] = "failed" /\ jobs[a].op = "ReadMetadata"
    /\ initLog[b] = "failed" /\ jobs[b].op = "OpenFile"

\* C6: when a ReadMetadata callback has returned, its request id is not in
\* the map.
C6_ReadMetadataLeavesNoSession ==
  \A r \in finished :
    jobs[r].op = "ReadMetadata" => r \notin DOMAIN worker_reads_in_progress_

\* Three ReadMetadata requests have returned: one after a header failure,
\* one after a failed teardown, one with its metadata sent.
C6_Witness ==
  \E a, b, c \in finished :
    /\ jobs[a].op = "ReadMetadata"
    /\ jobs[b].op = "ReadMetadata"
    /\ jobs[c].op = "ReadMetadata"
    /\ MessagesOf(a) = <<FileSystemError(a, kHeaderError, a)>>
    /\ MessagesOf(b) = <<FileSystemError(b, kCleanupError, b)>>
    /\ Len(MessagesOf(c)) = 1
    /\ MessagesOf(c)[1].type = "ReadMetadataDone"

\* C7: when an OpenFile callback has returned and no CloseFile naming it has
\* begun, its VolumeArchive is in the map under the open request's id exactly
\* if OpenFileDone was sent for it.
C7_OpenSessionIffOpenFileDone ==
  \A r \in finished :
    (jobs[r].op = "OpenFile" /\ ~CloseStarted(r)) =>
      /\ (r \in DOMAIN worker_reads_in_progress_) <=>
           (\E k \in MessageIndexes : messages[k] = OpenFileDone(r))
      /\ r \in DOMAIN worker_reads_in_progress_ =>
           /\ worker_reads_in_progress_[r] = r
           /\ archives[r] = "live"
      /\ r \notin DOMAIN worker_reads_in_progress_ => archives[r] # "live"

\* One OpenFile has succeeded and stays open, one has failed in Init and one
\* in GetNextHeader.
C7_Witness ==
  \E a, b, c \in finished :
    /\ jobs[a].op = "OpenFile" /\ MessagesOf(a) = <<OpenFileDone(a)>>
    /\ a \in DOMAIN worker_reads_in_progress_
    /\ jobs[b].op = "OpenFile" /\ MessagesOf(b) = <<FileSystemError(b, kInitError, b)>>
    /\ jobs[c].op = "OpenFile" /\ MessagesOf(c) = <<FileSystemError(c, kHeaderError, c)>>

\* C8: when ReadData fails in a ReadFile, the error is sent with the read
\* request's id and none with the open request's id, the callback returns at
\* once (no later ReadData call and no later chunk of the request), and the
\* VolumeArchive stays in the map under the open request's id until a
\* CloseFile naming it runs.
C8_ReadFailureKeepsSession ==
  \A i \in 1..Len(readDataLog) :
    LET e == readDataLog[i]
        r == e.request_id
        open_request_id == jobs[r].open_request_id
    IN ~e.ok =>
         /\ r \in finished
         /\ Len(MessagesOf(r)) > 0
         /\ MessagesOf(r)[Len(MessagesOf(r))] =
              FileSystemError(r, kReadDataError, e.session)
         /\ \A k \in 1..(Len(MessagesOf(r)) - 1) :
              MessagesOf(r)[k].type = "ReadFileDone"
         /\ \A k \in MessageIndexes :
              IsError(messages[k]) => messages[k].request_id # open_request_id
         /\ \A j \in (i + 1)..Len(readDataLog) : readDataLog[j].request_id # r
         /\ ~CloseStarted(open_request_id) =>
              /\ GetVolumeArchive(worker_reads_in_progress_, open_request_id) = e.session
              /\ archives[e.session] = "live"

\* A ReadFile has sent a chunk and then failed, and a later CloseFile of the
\* same open request has found the VolumeArchive and returned.
C8_Witness ==
  \E i \in 1..Len(readDataLog) :
    LET e == readDataLog[i]
        r == e.request_id
    IN /\ ~e.ok
       /\ Len(MessagesOf(r)) = 2
       /\ \E c \in finished :
            /\ c > r
            /\ jobs[c].op = "CloseFile"
            /\ jobs[c].open_request_id = jobs[r].open_request_id
            /\ MessagesOf(c) = <<CloseFileDone(c, jobs[c].open_request_id)>>

\* The ReadFileDone messages of request r, in order.
ChunksOf(r) ==
  LET Test(m) == m.request_id = r /\ m.type = "ReadFileDone"
  IN SelectSeq(messages, Test)

\* C9: the ReadData calls of a ReadFile of (offset, length), length > 0, are
\* of at most kReadBufferSizeMax bytes each, begin at offset and follow one
\* another without gap or overlap inside [offset, offset + length); one chunk
\* is sent per successful call, of the call's size, with has_more true exactly
\* if the call does not end the range; and when the callback has returned
\* with no call failed, the calls end at offset + length, so that the last
\* chunk, and only the last, has has_more false.
C9_ReadFileCoversRangeInChunks ==
  \A r \in 1..Len(jobs) :
    LET steps == ReadDataOf(r)
        chunks == ChunksOf(r)
        n == Len(steps)
        end == jobs[r].offset + jobs[r].length
    IN (jobs[r].op = "ReadFile" /\ jobs[r].length > 0) =>
         /\ n > 0 => steps[1].offset = jobs[r].offset
         /\ \A i \in 1..n :
              /\ steps[i].length > 0
              /\ steps[i].length <= kReadBufferSizeMax
              /\ steps[i].offset + steps[i].length <= end
         /\ \A i \in 1..(n - 1) :
              /\ steps[i].ok
              /\ steps[i + 1].offset = steps[i].offset + steps[i].length
         /\ Len(chunks) = Cardinality({i \in 1..n : steps[i].ok})
         /\ \A i \in 1..Len(chunks) :
              chunks[i] = ReadFileDone(r, steps[i].length,
                                       steps[i].offset + steps[i].length < end)
         /\ (r \in finished /\ \A i \in 1..n : steps[i].ok) =>
              /\ n > 0
              /\ steps[n].offset + steps[n].length = end
              /\ Len(chunks) = n
              /\ \A i \in 1..n : chunks[i].has_more <=> i < n

\* A ReadFile that needs MaxChunks ReadData calls, the last of one byte, has
\* returned with all its chunks sent.
C9_Witness ==
  \E r \in finished :
    /\ jobs[r].op = "ReadFile"
    /\ jobs[r].length = (MaxChunks - 1) * kReadBufferSizeMax + 1
    /\ Len(ReadDataOf(r)) = MaxChunks
    /\ Len(ChunksOf(r)) = MaxChunks
    /\ ChunksOf(r)[MaxChunks] = ReadFileDone(r, 1, FALSE)

\* C10: when Cleanup() of a VolumeArchive has failed and the callback that
\* tore it down has returned: if an error of an earlier operation on that
\* VolumeArchive was sent, no error is sent for the teardown; if none was,
\* exactly one error is sent for the teardown.
C10_TeardownFailureReportedOnce ==
  \A i \in 1..Len(cleanupLog) :
    LET e == cleanupLog[i]
        earlier == {k \in MessageIndexes :
                      /\ IsError(messages[k])
                      /\ messages[k].session = e.session
                      /\ messages[k].text # kCleanupError}
        teardown == {k \in MessageIndexes :
                       /\ IsError(messages[k])
                       /\ messages[k].session = e.session
                       /\ messages[k].text = kCleanupError}
    IN (~e.ok /\ e.request_id \in finished) =>
         /\ earlier # {} => teardown = {}
         /\ earlier = {} => Cardinality(teardown) = 1

\* C11: the callbacks of the requests run on the worker one at a time: at most
\* one has begun and not returned, it is the one the worker is in, every
\* request submitted before it has returned, and only its VolumeArchive is
\* inside a decoder call.
C11_OneCallbackAtATime ==
  \A c \in 1..Len(jobs) :
    Running(c) =>
      /\ pc # "idle"
      /\ job = jobs[c]
      /\ \A d \in 1..Len(jobs) :
           /\ Running(d) => d = c
           /\ d < c => d \in finished
           /\ d > c => ~Started(d)
      /\ InDecoderCall =>
           volume_archive = IF job.op \in {"ReadFile", "CloseFile"}
                            THEN job.open_request_id ELSE job.request_id

\* A ReadFile is inside ReadData, waiting for a chunk, while a request
\* submitted after it waits in the message loop and the open before it has
\* returned.
C11_Witness ==
  \E c \in 1..Len(jobs) :
    /\ Running(c)
    /\ jobs[c].op = "ReadFile"
    /\ InDecoderCall
    /\ reader[volume_archive] = "awaiting"
    /\ queue # <<>>
    /\ finished # {}

RECURSIVE Split(_)
Split(path) ==
  IF path = <<>> THEN <<>>
  ELSE LET delimiters == {i \in 1..Len(path) : path[i] = 47}
       IN IF delimiters = {} THEN <<path>>
          ELSE LET first == CHOOSE i \in delimiters : \A j \in delimiters : i <= j
               IN <<SubSeq(path, 1, first - 1)>>
                    \o Split(SubSeq(path, first + 1, Len(path)))

\* The node of the tree reached by the names, as a set: empty if there is none.
RECURSIVE NodesAt(_, _)
NodesAt(tree, names) ==
  IF names = <<>> THEN {tree}
  ELSE LET entries == GetEntries(tree)
       IN IF entries.type = "dictionary" /\ Head(names) \in DOMAIN entries.value
          THEN NodesAt(entries.value[Head(names)], Tail(names))
          ELSE {}

\* The path names the entry itself: it is not empty and does not end with the
\* delimiter.
NamesEntry(path) == path # <<>> /\ path[Len(path)] # 47

ContentSlice(read_offset, read_length) ==
  SubSeq(kArchiveData, read_offset + 1,
         Min(read_offset + read_length, Len(kArchiveData)))

\* C14: whatever ReadData calls came before, a ReadData of (offset, length)
\* inside the entry returns true and fills the buffer with the entry's bytes
\* [offset, offset + length), be the offset at, behind or ahead of the cursor
\* the calls before left; and a read of the first bytes followed by a read of
\* all the rest gives, end to end, the whole entry.
C14_ReadDataReturnsTheSlice ==
  [][\A chunk \in ChunkSizes :
       LET read_offset == request'.read_offset
           read_length == request'.read_length
       IN (/\ ~archive_data.null
           /\ read_length > 0
           /\ read_offset + read_length <= Len(kArchiveData)) =>
            /\ results'[chunk]
            /\ buffers'[chunk] = ContentSlice(read_offset, read_length)
            /\ (/\ request.read_length > 0
                /\ request.read_offset = 0
                /\ read_offset = request.read_length
                /\ read_offset + read_length = Len(kArchiveData)) =>
                 buffers[chunk] \o buffers'[chunk] = kArchiveData
  ]_vars

\* A read inside the entry came after a read that had left the cursor
\* further on, so that the decoding was restarted, and was not at offset 0.
C14_Witness ==
  /\ ~archive_data.null
  /\ previous.read_length > 0
  /\ request.read_offset > 0
  /\ request.read_length > 1
  /\ request.read_offset < previous.read_offset + previous.read_length
  /\ request.read_offset + request.read_length <= Len(kArchiveData)
  /\ \A chunk \in ChunkSizes :
       buffers[chunk] = ContentSlice(request.read_offset, request.read_length)

\* C15: a ReadData whose length goes beyond the end of the entry, as
\* ReadData(0, length) with length above the entry's size does, returns true,
\* writes the bytes the entry has from the offset on at the start of the
\* buffer and leaves every byte of the buffer after them as it was.
C15_ReadBeyondEndLeavesRest ==
  \A chunk \in ChunkSizes :
    (/\ ~archive_data.null
     /\ request.read_length > 0
     /\ request.read_offset + request.read_length > Len(kArchiveData)) =>
      LET available == Len(kArchiveData) - request.read_offset
      IN /\ results[chunk]
         /\ Len(buffers[chunk]) = request.read_length
         /\ SubSeq(buffers[chunk], 1, available) =
              ContentSlice(request.read_offset, request.read_length)
         /\ \A i \in (available + 1)..request.read_length :
              buffers[chunk][i] = kBufferFill

\* ReadData(0, length) with length twice the size of the entry has returned.
C15_Witness ==
  /\ ~archive_data.null
  /\ request.read_offset = 0
  /\ request.read_length = 2 * Len(kArchiveData)
  /\ \A chunk \in ChunkSizes :
       /\ results[chunk]
       /\ SubSeq(buffers[chunk], 1, Len(kArchiveData)) = kArchiveData

\* C16: when the decoder has no data, ReadData returns false and the error
\* message is kArchiveReadDataErrorPrefix followed by the decoder's error,
\* at offset 0 and at every other offset.
C16_NoDataFailsWithPrefixedError ==
  \A chunk \in ChunkSizes :
    (archive_data.null /\ request.read_length > 0) =>
      /\ ~results[chunk]
      /\ sessions[chunk].error_message =
           kArchiveReadDataErrorPrefix \o kArchiveError
      /\ sessions[chunk].error_message # kArchiveError

\* With no data, a ReadData at offset 0 and then one at a greater offset
\* have failed.
C16_Witness ==
  /\ archive_data.null
  /\ previous.read_length > 0
  /\ previous.read_offset = 0
  /\ request.read_offset > 0
  /\ \A chunk \in ChunkSizes : ~results[chunk]

\* C17: the same ReadData calls made with different kMinimumDataChunkSize and
\* kMaximumDataChunkSize return the same and leave the same bytes in the
\* buffer, be the length below the minimum, between the two or above the
\* maximum.
C17_ChunkSizesNotObservable ==
  \A one, other \in ChunkSizes :
    /\ results[one] = results[other]
    /\ buffers[one] = buffers[other]

\* A read inside the entry whose length is below the minimum of one pair of
\* chunk sizes, between the minimum and the maximum of another and above the
\* maximum of a third has filled the buffer.
C17_Witness ==
  /\ ~archive_data.null
  /\ request.read_length > 0
  /\ request.read_offset + request.read_length <= Len(kArchiveData)
  /\ \E below, between, above \in ChunkSizes :
       /\ request.read_length < below.kMinimumDataChunkSize
       /\ request.read_length > between.kMinimumDataChunkSize
       /\ request.read_length <= between.kMaximumDataChunkSize
       /\ request.read_length > above.kMaximumDataChunkSize
       /\ buffers[above] = ContentSlice(request.read_offset, request.read_length)

\* The worker is suspended in a decoder call, awaiting a chunk.
AwaitingChunk == InDecoderCall /\ reader[volume_archive] = "awaiting"

\* C18: worker_reads_in_progress_lock_ is held by the worker only between an
\* Acquire and the insert or erase that follows it, and by a chunk
\* notification only from its lookup to its Release; it is never held by the
\* worker during a decoder call (Init, GetNextHeader, ReadData, Cleanup).
\* So whenever the worker is suspended awaiting a chunk the worker does not
\* hold the lock, and a chunk notification that has not begun finds it free.
C18_LockNotHeldInDecoderCall ==
  /\ (InDecoderCall \/ pc = "cl_cleanup") => lock # "worker"
  /\ lock = "worker" <=> pc \in {"cva_insert", "cl_erase"}
  /\ lock = "notifier" <=> npc \in {"lookup", "signal", "release"}
  /\ AwaitingChunk => lock # "worker"
  /\ (AwaitingChunk /\ npc = "idle") => lock = "free"

\* The worker awaits a chunk in a decoder call while the notification of that
\* chunk holds the lock, after the worker has itself taken and released it
\* for the insert.
C18_Witness ==
  /\ AwaitingChunk
  /\ lock = "notifier"
  /\ npc = "signal"
  /\ nva = volume_archive
  /\ volume_archive \in DOMAIN worker_reads_in_progress_

\* The error of a failed GetNextHeader was sent for request c.
HeaderFailed(c) ==
  \E i \in 1..Len(messages) : messages[i] = FileSystemError(c, kHeaderError, c)

\* C19: in ReadMetadataCallback and OpenFileCallback the first GetNextHeader
\* that fails ends the loop: at that step the error is sent for the request,
\* and from then on no GetNextHeader is called on its VolumeArchive and the
\* error stays the only message of the request (no ReadMetadataDone, no
\* OpenFileDone, no second error).
C19_HeaderIterationStopsAtFirstError ==
  [][\A c \in RequestIds :
       /\ HeaderFailed(c) =>
            /\ header'[c] = header[c]
            /\ MessagesOf(c)' = <<FileSystemError(c, kHeaderError, c)>>
            /\ ~(pc' \in {"rm_header", "of_header"} /\ job'.request_id = c)
       /\ (error_message[c] # kHeaderError /\ error_message'[c] = kHeaderError) =>
            /\ pc \in {"rm_header", "of_header"}
            /\ job.request_id = c /\ volume_archive = c
            /\ header'[c] = header[c] + 1
            /\ ~HeaderFailed(c)
            /\ HeaderFailed(c)'
            /\ MessagesOf(c)' = <<FileSystemError(c, kHeaderError, c)>>
            /\ pc' \notin {"rm_header", "of_header"}]_vars

\* A ReadMetadata has failed in its second GetNextHeader and an OpenFile in
\* its first, before the end of the archive; both callbacks have returned.
C19_Witness ==
  \E a, b \in finished :
    /\ jobs[a].op = "ReadMetadata" /\ HeaderFailed(a) /\ header[a] = 2
    /\ jobs[b].op = "OpenFile" /\ HeaderFailed(b) /\ header[b] = 1
    /\ ~EndOfArchive(header[a]) /\ ~EndOfArchive(header[b])

C21_OpenFileDoneOnlyOnMatch ==
  \A c \in 1..Len(jobs) :
    (\E k \in MessageIndexes : messages[k] = OpenFileDone(c)) =>
      /\ jobs[c].op = "OpenFile"
      /\ ~EndOfArchive(header[c])
      /\ header[c] \in 1..MaxHeaders
      /\ FileReached(jobs[c].file_path, ArchivePaths[header[c]])

\* The message that reports the success of a request of kind op.
SuccessType(op) ==
  CASE op = "ReadMetadata" -> "ReadMetadataDone"
    [] op = "OpenFile" -> "OpenFileDone"
    [] op = "CloseFile" -> "CloseFileDone"
    [] OTHER -> "ReadFileDone"

\* C22: a ReadMetadata, OpenFile or CloseFile callback that has returned has
\* sent exactly one message with its own request id, which is its success
\* message (ReadMetadataDone, OpenFileDone, CloseFileDone) or a
\* FileSystemError; while it runs it has sent at most that one.  This holds
\* whichever of reader Open, Init, GetNextHeader and Cleanup fail.
C22_ExactlyOneTerminalMessage ==
  \A c \in 1..Len(jobs) :
    jobs[c].op \in {"ReadMetadata", "OpenFile", "CloseFile"} =>
      /\ Len(MessagesOf(c)) <= 1
      /\ \A i \in 1..Len(MessagesOf(c)) :
           \/ MessagesOf(c)[i].type = SuccessType(jobs[c].op)
           \/ IsError(MessagesOf(c)[i])
      /\ c \in finished => Len(MessagesOf(c)) = 1
      /\ ~Started(c) => MessagesOf(c) = <<>>

\* An OpenFile has succeeded; the CloseFile naming it has returned with
\* CloseFileDone although its Cleanup() failed; a ReadMetadata has returned
\* with the error of its failed Cleanup() as its only message.
C22_Witness ==
  \E a, b, c \in finished :
    /\ jobs[a].op = "OpenFile" /\ MessagesOf(a) = <<OpenFileDone(a)>>
    /\ jobs[b].op = "CloseFile" /\ jobs[b].open_request_id = a
    /\ MessagesOf(b) = <<CloseFileDone(b, a)>>
    /\ \E i \in 1..Len(cleanupLog) :
         cleanupLog[i].session = a /\ ~cleanupLog[i].ok
    /\ jobs[c].op = "ReadMetadata"
    /\ MessagesOf(c) = <<FileSystemError(c, kCleanupError, c)>>

\* m ends the answer to a ReadFile: a chunk with has_more_data false, or an
\* error.
IsFinal(m) == (m.type = "ReadFileDone" /\ ~m.has_more) \/ IsError(m)

\* C23: a ReadFile callback that has returned has sent at least one message
\* with its request id, and the last of them is a ReadFileDone with
\* has_more_data false or a FileSystemError, for every length asked for,
\* length 0 included.
C23_ReadFileEndsWithFinalMessage ==
  \A c \in finished :
    jobs[c].op = "ReadFile" =>
      /\ MessagesOf(c) # <<>>
      /\ IsFinal(MessagesOf(c)[Len(MessagesOf(c))])

\* The nodes of the tree: the node itself and the nodes of its children.
RECURSIVE NodesOf(_)
NodesOf(tree) ==
  LET entries == GetEntries(tree)
  IN {tree} \cup
     (IF entries.type = "dictionary"
      THEN UNION {NodesOf(entries.value[name]) : name \in DOMAIN entries.value}
      ELSE {})

\* C24: after any sequence of ConstructMetadata calls on a root directory,
\* every node of the tree whose "entries" is a dictionary has isDirectory
\* true, also when an entry is inserted at a path where a node with children
\* stands already.
C24_EntriesOnlyInDirectories ==
  \A node \in NodesOf(root) :
    GetEntries(node).type = "dictionary" => node.isDirectory


====
